---- MODULE Spec2Model ----
(***************************************************************************)
(* Document storage gateway of lms-fullstack: the two object-storage       *)
(* helper modules lib/minio/minio-client.ts (presigned-URL variant,        *)
(* prefix Minio_) and lib/minio/mini-io-client.ts (direct variant, prefix  *)
(* MiniIo_), run by concurrent callers against one shared bucket.          *)
(* Every await on the object store or on fetch is one atomic step; the     *)
(* store answers each request from its current contents or fails it.       *)
(***************************************************************************)
EXTENDS Integers, Sequences, FiniteSets, TLC

\* ------------------------------------------------------------------ bounds
\* number of identifiers v4() hands out in one behaviour
MaxDocs == 2

\* concurrent callers of the gateway
Procs == {"p1", "p2"}

\* identifiers v4() can generate, and one identifier it never generates
DocIds == 1..MaxDocs
UnknownIds == {0}

\* File inputs: content bytes and declared type (File.type may be empty)
Files ==
  { [content |-> <<1>>, type |-> "text/plain"],
    [content |-> <<1, 0>>, type |-> ""] }

\* the expirySeconds argument: <<>> when the caller omits it
ExpiryArgs == { <<>>, <<120>> }

\* ways a request to the store (or the signing call) can fail
Failures == {"Transport", "Unauthorized"}

\* a failed request that changes the store: a lost response leaves the change applied
WriteFailures == {<<"Transport", TRUE>>, <<"Transport", FALSE>>, <<"Unauthorized", FALSE>>}

\* body of an error response of the store (an XML error document)
ErrorBody == <<60>>

VARIABLES
  store,        \* the bucket: object key -> [data, ctype]
  nextId,       \* identifiers generated so far by v4(), plus one
  created,      \* history: docId -> the file of the createDocument call that generated it
  returnedOk,   \* history: docIds some createDocument call returned to its caller
  delCalled,    \* history: docIds for which deleteDocument was called
  pc,           \* per caller: the await it is suspended at
  loc,          \* per caller: the locals of the running call
  lastReturn    \* the return (or throw) the last step made, if it made one

vars == <<store, nextId, created, returnedOk, delCalled, pc, loc, lastReturn>>

\* ------------------------------------------------------------ values
NoFile == [content |-> <<>>, type |-> "none"]
NoUrl == [kind |-> "none", method |-> "none", key |-> 0, expiry |-> 0]
NoStat == [size |-> 0, contentType |-> "none"]
NoLoc ==
  [docId |-> 0, file |-> NoFile, arg |-> <<>>, url |-> NoUrl, stat |-> NoStat, data |-> <<>>]

NoReturn ==
  [ op |-> "none", mod |-> "none", docId |-> 0, ok |-> FALSE,
    err |-> "none", cause |-> "none",
    data |-> <<>>, contentType |-> "none", size |-> 0, value |-> FALSE,
    url |-> NoUrl, arg |-> <<>>, signed |-> NoUrl, putUrl |-> NoUrl,
    lookup |-> "none", absent |-> FALSE, fault |-> FALSE ]

StoredKeys == DOMAIN store

\* ------------------------------------------------------------ the object store
\* statObject: metadata of the object, or a failure
StatOutcomes(k) ==
  (IF k \in StoredKeys THEN {"ok"} ELSE {"NotFound"}) \cup Failures

statObject(k) == [size |-> Len(store[k].data), contentType |-> store[k].ctype]

\* the bucket after a PUT of body under key k with a Content-Type header
PutObject(s, k, body, ctype) ==
  [x \in (DOMAIN s) \cup {k} |-> IF x = k THEN [data |-> body, ctype |-> ctype] ELSE s[x]]

\* the bucket after a DELETE of key k (a missing key is not an error)
RemoveObject(s, k) == [x \in (DOMAIN s) \ {k} |-> s[x]]

\* ------------------------------------------------------------ URLs
presignedPutObject(docId, expirySeconds) ==
  [kind |-> "signed", method |-> "PUT", key |-> docId, expiry |-> expirySeconds]

presignedGetObject(docId, expirySeconds) ==
  [kind |-> "signed", method |-> "GET", key |-> docId, expiry |-> expirySeconds]

\* `${process.env.MINIO_URL}/${bucket}/${docId}`
ConstructedUrl(docId) ==
  [kind |-> "plain", method |-> "none", key |-> docId, expiry |-> 0]

DefaultExpiry == 3600
ReadExpiry == 60

\* default parameter: expirySeconds = 3600
expirySeconds(arg) == IF arg = <<>> THEN DefaultExpiry ELSE arg[1]

\* stat.metaData["content-type"] || "application/octet-stream"
ContentTypeOf(stat) ==
  IF stat.contentType = "" THEN "application/octet-stream" ELSE stat.contentType

\* an identifier generator that hands out the previous identifier again
v4_fixed == IF nextId > 1 THEN nextId - 1 ELSE nextId

\* v4(): an identifier never generated before
v4 == nextId

\* docIds a caller can pass: one a createDocument call returned, or an unknown one
KnownIds == returnedOk \cup UnknownIds

\* ------------------------------------------------------------ results
Returned(p, m, o, k) ==
  [NoReturn EXCEPT !.op = o, !.mod = m, !.docId = k, !.ok = TRUE]

\* throw new Error(msg): the original error e is logged, not attached
Generic(msg, e) == [err |-> msg, cause |-> "none"]

\* an error that leaves the function uncaught
Uncaught(e) == [err |-> e, cause |-> e]

Thrown(p, m, o, k, x) ==
  [NoReturn EXCEPT !.op = o, !.mod = m, !.docId = k, !.ok = FALSE,
                   !.err = x.err, !.cause = x.cause]

\* caller p is suspended at await `at` (or idle) and no result waits to be taken
At(p, at) == lastReturn = NoReturn /\ pc[p] = at

Finish(p, r) ==
  /\ pc' = [pc EXCEPT ![p] = "idle"]
  /\ loc' = [loc EXCEPT ![p] = NoLoc]
  /\ lastReturn' = r

Suspend(p, at, l) ==
  /\ pc' = [pc EXCEPT ![p] = at]
  /\ loc' = [loc EXCEPT ![p] = l]
  /\ lastReturn' = NoReturn

Init ==
  /\ store = << >>
  /\ nextId = 1
  /\ created = [k \in DocIds |-> NoFile]
  /\ returnedOk = {}
  /\ delCalled = {}
  /\ pc = [p \in Procs |-> "idle"]
  /\ loc = [p \in Procs |-> NoLoc]
  /\ lastReturn = NoReturn

\* ============================================================
\* lib/minio/minio-client.ts
\* ============================================================
Minio_createDocument_catch(e) == Generic("Failed to create document", e)

\* createDocument: v4(), then await presignedPutObject
Minio_createDocument(p) ==
  /\ At(p, "idle")
  /\ nextId <= MaxDocs
  /\ \E file \in Files, arg \in ExpiryArgs :
       LET docId == v4 IN
       /\ nextId' = nextId + 1
       /\ created' = [created EXCEPT ![docId] = file]
       /\ \/ Suspend(p, "mc_fetch",
                     [NoLoc EXCEPT !.docId = docId, !.file = file,
                                   !.url = presignedPutObject(docId, expirySeconds(arg)),
                                   !.arg = arg])
          \/ \E e \in Failures :
               Finish(p, [Thrown(p, "minio", "createDocument", docId,
                                 Minio_createDocument_catch(e)) EXCEPT !.arg = arg])
  /\ UNCHANGED <<store, returnedOk, delCalled>>

\* createDocument: await fetch(url, {method: "PUT", body: file, headers}), then return
Minio_createDocument_fetch(p) ==
  /\ At(p, "mc_fetch")
  /\ LET l == loc[p]
         ret == [Returned(p, "minio", "createDocument", l.docId) EXCEPT
                   !.url = ConstructedUrl(l.docId), !.arg = l.arg,
                   !.signed = l.url, !.putUrl = l.url]
     IN
     \/ \* the store accepts the upload: 200
        /\ store' = PutObject(store, l.url.key, l.file.content, l.file.type)
        /\ returnedOk' = returnedOk \cup {l.docId}
        /\ Finish(p, ret)
     \/ \* the store rejects the upload: fetch resolves with a 4xx/5xx response
        /\ store' = store
        /\ returnedOk' = returnedOk \cup {l.docId}
        /\ Finish(p, [ret EXCEPT !.fault = TRUE])
     \/ \* fetch rejects: the request or its response is lost
        \E e \in {"Transport"}, applied \in BOOLEAN :
          /\ store' = IF applied
                      THEN PutObject(store, l.url.key, l.file.content, l.file.type)
                      ELSE store
          /\ returnedOk' = returnedOk
          /\ Finish(p, [Thrown(p, "minio", "createDocument", l.docId,
                               Minio_createDocument_catch(e)) EXCEPT !.arg = l.arg])
  /\ UNCHANGED <<nextId, created, delCalled>>

\* the signing call with the expiry of the read path
Minio_getDocumentUrl_sign60(docId, secs) == presignedGetObject(docId, ReadExpiry)

\* getDocumentUrl: the signing call of line 64
Minio_getDocumentUrl_sign(docId, secs) == presignedGetObject(docId, secs)

Minio_getDocumentUrl_catch(e) == Generic("Failed to get document URL", e)

\* getDocumentUrl: await presignedGetObject, then return the url
Minio_getDocumentUrl(p) ==
  /\ At(p, "idle")
  /\ \E docId \in KnownIds, arg \in ExpiryArgs :
       \/ LET url == Minio_getDocumentUrl_sign(docId, expirySeconds(arg)) IN
          Finish(p, [Returned(p, "minio", "getDocumentUrl", docId) EXCEPT
                       !.url = url, !.arg = arg,
                       !.signed = url])
       \/ \E e \in Failures :
            Finish(p, [Thrown(p, "minio", "getDocumentUrl", docId,
                              Minio_getDocumentUrl_catch(e)) EXCEPT !.arg = arg])
  /\ UNCHANGED <<store, nextId, created, returnedOk, delCalled>>

\* a catch block that rethrows what it caught
Minio_readDocument_rethrow(e) == [err |-> e, cause |-> e]

Minio_readDocument_catch(e) == Generic("Failed to read document", e)

\* readDocument: await statObject
Minio_readDocument(p) ==
  /\ At(p, "idle")
  /\ \E docId \in KnownIds : \E o \in StatOutcomes(docId) :
       IF o = "ok"
       THEN Suspend(p, "mr_presign",
                    [NoLoc EXCEPT !.docId = docId, !.stat = statObject(docId)])
       ELSE Finish(p, [Thrown(p, "minio", "readDocument", docId,
                              Minio_readDocument_catch(o)) EXCEPT
                         !.absent = (docId \notin StoredKeys)])
  /\ UNCHANGED <<store, nextId, created, returnedOk, delCalled>>

\* readDocument: await presignedGetObject(bucket, docId, 60)
Minio_readDocument_presign(p) ==
  /\ At(p, "mr_presign")
  /\ LET l == loc[p] IN
     \/ Suspend(p, "mr_fetch", [l EXCEPT !.url = presignedGetObject(l.docId, ReadExpiry)])
     \/ \E e \in Failures :
          Finish(p, Thrown(p, "minio", "readDocument", l.docId, Minio_readDocument_catch(e)))
  /\ UNCHANGED <<store, nextId, created, returnedOk, delCalled>>

\* readDocument: await fetch(url), await response.arrayBuffer(), then return
Minio_readDocument_fetch(p) ==
  /\ At(p, "mr_fetch")
  /\ LET l == loc[p]
         ret == [Returned(p, "minio", "readDocument", l.docId) EXCEPT
                   !.contentType = ContentTypeOf(l.stat), !.signed = l.url]
     IN
     \/ \* the store answers from its contents: 200 with the object, or 404
        Finish(p, [ret EXCEPT !.data = IF l.url.key \in StoredKeys
                                       THEN store[l.url.key].data
                                       ELSE ErrorBody])
     \/ \* the store fails the request: fetch resolves with a 4xx/5xx response
        Finish(p, [ret EXCEPT !.data = ErrorBody, !.fault = TRUE])
     \/ \* fetch rejects
        \E e \in {"Transport"} :
          Finish(p, Thrown(p, "minio", "readDocument", l.docId, Minio_readDocument_catch(e)))
  /\ UNCHANGED <<store, nextId, created, returnedOk, delCalled>>

Minio_deleteDocument_catch(e) == Generic("Failed to delete document", e)

\* deleteDocument: await removeObject
Minio_deleteDocument(p) ==
  /\ At(p, "idle")
  /\ \E docId \in KnownIds :
       /\ delCalled' = delCalled \cup (DocIds \cap {docId})
       /\ \/ /\ store' = RemoveObject(store, docId)
             /\ Finish(p, [Returned(p, "minio", "deleteDocument", docId) EXCEPT
                             !.absent = (docId \notin StoredKeys)])
          \/ \E f \in WriteFailures :
               LET e == f[1] IN
               /\ store' = IF f[2] THEN RemoveObject(store, docId) ELSE store
               /\ Finish(p, [Thrown(p, "minio", "deleteDocument", docId,
                                    Minio_deleteDocument_catch(e)) EXCEPT
                               !.absent = (docId \notin StoredKeys)])
  /\ UNCHANGED <<nextId, created, returnedOk>>

\* a metadata result that takes the size from the wrong place
Minio_getDocumentMetadata_nosize(stat) ==
  [contentType |-> ContentTypeOf(stat), size |-> 0]

\* the value getDocumentMetadata returns for a stat
Minio_getDocumentMetadata_result(stat) ==
  [contentType |-> ContentTypeOf(stat), size |-> stat.size]

Minio_getDocumentMetadata_catch(e) == Generic("Failed to get document metadata", e)

\* getDocumentMetadata: await statObject
Minio_getDocumentMetadata(p) ==
  /\ At(p, "idle")
  /\ \E docId \in KnownIds : \E o \in StatOutcomes(docId) :
       IF o = "ok"
       THEN LET m == Minio_getDocumentMetadata_result(statObject(docId)) IN
            Finish(p, [Returned(p, "minio", "getDocumentMetadata", docId) EXCEPT
                         !.contentType = m.contentType, !.size = m.size])
       ELSE Finish(p, [Thrown(p, "minio", "getDocumentMetadata", docId,
                              Minio_getDocumentMetadata_catch(o)) EXCEPT
                         !.absent = (docId \notin StoredKeys)])
  /\ UNCHANGED <<store, nextId, created, returnedOk, delCalled>>

\* a catch block that throws like the other operations do
Minio_documentExists_throw(e) ==
  [ok |-> FALSE, value |-> FALSE, err |-> "Failed to check document", cause |-> "none"]

\* documentExists, catch block: return false
Minio_documentExists_catch(e) == [ok |-> TRUE, value |-> FALSE, err |-> "none", cause |-> "none"]

\* documentExists: await statObject
Minio_documentExists(p) ==
  /\ At(p, "idle")
  /\ \E docId \in KnownIds : \E o \in StatOutcomes(docId) :
       LET r == IF o = "ok"
                THEN [ok |-> TRUE, value |-> TRUE, err |-> "none", cause |-> "none"]
                ELSE Minio_documentExists_catch(o)
       IN Finish(p, [NoReturn EXCEPT
                       !.op = "documentExists", !.mod = "minio",
                       !.docId = docId, !.ok = r.ok, !.value = r.value,
                       !.err = r.err, !.cause = r.cause, !.lookup = o,
                       !.absent = (docId \notin StoredKeys)])
  /\ UNCHANGED <<store, nextId, created, returnedOk, delCalled>>

\* ============================================================
\* lib/minio/mini-io-client.ts
\* ============================================================
\* createDocument: v4(), then await file.arrayBuffer()
MiniIo_createDocument(p) ==
  /\ At(p, "idle")
  /\ nextId <= MaxDocs
  /\ \E file \in Files :
       LET docId == v4 IN
       /\ nextId' = nextId + 1
       /\ created' = [created EXCEPT ![docId] = file]
       /\ Suspend(p, "ic_put", [NoLoc EXCEPT !.docId = docId, !.file = file,
                                             !.data = file.content])
  /\ UNCHANGED <<store, returnedOk, delCalled>>

\* createDocument: await putObject(Bucket, Key, Body, Body.length, {"Content-Type"}), return docId
MiniIo_createDocument_putObject(p) ==
  /\ At(p, "ic_put")
  /\ LET l == loc[p] IN
     \/ /\ store' = PutObject(store, l.docId, l.data, l.file.type)
        /\ returnedOk' = returnedOk \cup {l.docId}
        /\ Finish(p, Returned(p, "miniio", "createDocument", l.docId))
     \/ \E f \in WriteFailures :
          LET e == f[1] IN
          /\ store' = IF f[2]
                      THEN PutObject(store, l.docId, l.data, l.file.type)
                      ELSE store
          /\ returnedOk' = returnedOk
          /\ Finish(p, Thrown(p, "miniio", "createDocument", l.docId, Uncaught(e)))
  /\ UNCHANGED <<nextId, created, delCalled>>

\* getDocumentUrl: MINIO_URL + "/" + MINIO_BUCKET + "/" + docId
MiniIo_getDocumentUrl(p) ==
  /\ At(p, "idle")
  /\ \E docId \in KnownIds :
       Finish(p, [Returned(p, "miniio", "getDocumentUrl", docId) EXCEPT
                    !.url = ConstructedUrl(docId)])
  /\ UNCHANGED <<store, nextId, created, returnedOk, delCalled>>

\* readDocument: await getObject
MiniIo_readDocument(p) ==
  /\ At(p, "idle")
  /\ \E docId \in KnownIds : \E o \in StatOutcomes(docId) :
       IF o = "ok"
       THEN Suspend(p, "ir_stream",
                    [NoLoc EXCEPT !.docId = docId, !.data = store[docId].data])
       ELSE Finish(p, [Thrown(p, "miniio", "readDocument", docId, Uncaught(o)) EXCEPT
                         !.absent = (docId \notin StoredKeys)])
  /\ UNCHANGED <<store, nextId, created, returnedOk, delCalled>>

\* readDocument: the stream ends (Buffer.concat(chunks)) or errors
MiniIo_readDocument_stream(p) ==
  /\ At(p, "ir_stream")
  /\ LET l == loc[p] IN
     \/ Suspend(p, "ir_stat", l)
     \/ \E e \in {"Transport"} :
          Finish(p, Thrown(p, "miniio", "readDocument", l.docId, Uncaught(e)))
  /\ UNCHANGED <<store, nextId, created, returnedOk, delCalled>>

\* readDocument: await statObject, then return
MiniIo_readDocument_statObject(p) ==
  /\ At(p, "ir_stat")
  /\ LET l == loc[p] IN
     \E o \in StatOutcomes(l.docId) :
       IF o = "ok"
       THEN Finish(p, [Returned(p, "miniio", "readDocument", l.docId) EXCEPT
                         !.data = l.data,
                         !.contentType = ContentTypeOf(statObject(l.docId))])
       ELSE Finish(p, Thrown(p, "miniio", "readDocument", l.docId, Uncaught(o)))
  /\ UNCHANGED <<store, nextId, created, returnedOk, delCalled>>

\* deleteDocument: await removeObject
MiniIo_deleteDocument(p) ==
  /\ At(p, "idle")
  /\ \E docId \in KnownIds :
       /\ delCalled' = delCalled \cup (DocIds \cap {docId})
       /\ \/ /\ store' = RemoveObject(store, docId)
             /\ Finish(p, [Returned(p, "miniio", "deleteDocument", docId) EXCEPT
                             !.absent = (docId \notin StoredKeys)])
          \/ \E f \in WriteFailures :
               LET e == f[1] IN
               /\ store' = IF f[2] THEN RemoveObject(store, docId) ELSE store
               /\ Finish(p, [Thrown(p, "miniio", "deleteDocument", docId, Uncaught(e)) EXCEPT
                               !.absent = (docId \notin StoredKeys)])
  /\ UNCHANGED <<nextId, created, returnedOk>>

\* ------------------------------------------------------------ specification
\* the caller takes the result of the call that just returned or threw
Resume ==
  /\ lastReturn # NoReturn
  /\ lastReturn' = NoReturn
  /\ UNCHANGED <<store, nextId, created, returnedOk, delCalled, pc, loc>>

Next ==
  \/ \E p \in Procs : Minio_createDocument(p)
  \/ \E p \in Procs : Minio_createDocument_fetch(p)
  \/ \E p \in Procs : Minio_getDocumentUrl(p)
  \/ \E p \in Procs : Minio_readDocument(p)
  \/ \E p \in Procs : Minio_readDocument_presign(p)
  \/ \E p \in Procs : Minio_readDocument_fetch(p)
  \/ \E p \in Procs : Minio_deleteDocument(p)
  \/ \E p \in Procs : Minio_getDocumentMetadata(p)
  \/ \E p \in Procs : Minio_documentExists(p)
  \/ \E p \in Procs : MiniIo_createDocument(p)
  \/ \E p \in Procs : MiniIo_createDocument_putObject(p)
  \/ \E p \in Procs : MiniIo_getDocumentUrl(p)
  \/ \E p \in Procs : MiniIo_readDocument(p)
  \/ \E p \in Procs : MiniIo_readDocument_stream(p)
  \/ \E p \in Procs : MiniIo_readDocument_statObject(p)
  \/ \E p \in Procs : MiniIo_deleteDocument(p)
  \/ Resume

Spec == Init /\ [][Next]_vars

\* ============================================================
\* properties
\* ============================================================
R == lastReturn

\* a valid file input declares a content type
ValidFile(f) == f.type # ""

\* C1: round trip. A readDocument(docId) that returns, for a docId a
\* createDocument(file) call returned and that no deleteDocument was called
\* on, returns the file's bytes and the file's declared type.
C1_RoundTrip ==
  ( /\ R.op = "readDocument" /\ R.ok
    /\ R.docId \in returnedOk \ delCalled
    /\ ValidFile(created[R.docId]) )
  => /\ R.data = created[R.docId].content
     /\ R.contentType = created[R.docId].type

\* C2: documentExists(docId), when its lookup is answered by the store, returns
\* true for a docId createDocument returned and nobody asked to delete, and
\* false for a docId that was deleted.
C2_ExistsAfterCreateAndDelete ==
  ( R.op = "documentExists" /\ R.lookup \in {"ok", "NotFound"} )
  => /\ (R.docId \in returnedOk \ delCalled) => (R.ok /\ R.value = TRUE)
     /\ (R.docId \in delCalled /\ R.docId \notin StoredKeys) => (R.ok /\ R.value = FALSE)

CreatePcs == {"mc_fetch", "ic_put"}

\* C3: two createDocument calls never hold the same docId, and once two of them
\* have returned, every returned docId nobody asked to delete has its own object
\* with its own content in the store, whatever happened to the other.
C3_DistinctDocuments ==
  /\ \A p, q \in Procs :
       (p # q /\ pc[p] \in CreatePcs /\ pc[q] \in CreatePcs) => loc[p].docId # loc[q].docId
  /\ \A p \in Procs : pc[p] \in CreatePcs => loc[p].docId \notin returnedOk
  /\ Cardinality(returnedOk) >= 2 =>
       \A k \in returnedOk \ delCalled :
         /\ k \in StoredKeys
         /\ store[k].data = created[k].content

\* C4: createDocument returns a docId only for an upload the store accepted, and
\* every failure of it is the generic "Failed to create document" error without
\* the original error.
C4_CreateFailsGenerically ==
  R.op = "createDocument" =>
    IF R.ok THEN ~R.fault
    ELSE R.err = "Failed to create document" /\ R.cause = "none"

C6_MetadataSize ==
  (R.op = "getDocumentMetadata" /\ R.ok /\ R.docId \in returnedOk)
  => R.size = Len(created[R.docId].content)

\* getDocumentMetadata has just returned the size of the two-byte document
C6_Witness ==
  /\ R.op = "getDocumentMetadata" /\ R.ok /\ R.docId \in returnedOk \ delCalled
  /\ R.size = 2

\* the expiry a caller's argument stands for
ExpectedExpiry(arg) == IF Len(arg) = 0 THEN 3600 ELSE arg[1]

\* C7 as stated: in minio-client.ts the url createDocument and getDocumentUrl
\* return is the URL the signing call produced for the docId with the caller's
\* expiry, and createDocument transferred the bytes to it.
C7_ReturnedUrlIsSigned ==
  (R.mod = "minio" /\ R.ok /\ R.op \in {"createDocument", "getDocumentUrl"})
  => /\ R.url = R.signed
     /\ R.signed.kind = "signed" /\ R.signed.key = R.docId
     /\ R.signed.expiry = ExpectedExpiry(R.arg)
     /\ R.op = "createDocument" => R.putUrl = R.url

\* C7 amended: getDocumentUrl returns the URL its signing call produced for the
\* docId; createDocument returns the constructed URL MINIO_URL/bucket/docId and
\* not the signed URL it transferred the bytes to; both signing calls get the
\* caller's expirySeconds, 3600 when omitted, unmodified.
C7_SignedAndConstructedUrls ==
  (R.mod = "minio" /\ R.ok /\ R.op \in {"createDocument", "getDocumentUrl"})
  => /\ R.signed.kind = "signed" /\ R.signed.key = R.docId
     /\ R.signed.expiry = ExpectedExpiry(R.arg)
     /\ R.op = "getDocumentUrl" => (R.url = R.signed /\ R.signed.method = "GET")
     /\ R.op = "createDocument" =>
          /\ R.url.kind = "plain" /\ R.url.key = R.docId
          /\ R.url # R.signed
          /\ R.putUrl = R.signed /\ R.signed.method = "PUT"

\* getDocumentUrl has just returned for a created document with the expiry omitted
C7_Witness ==
  /\ R.op = "getDocumentUrl" /\ R.mod = "minio" /\ R.ok
  /\ R.arg = <<>> /\ R.docId \in returnedOk

\* C8: documentExists never throws, returns true exactly when its metadata
\* lookup succeeded, false on every failure of it, and leaves the store alone.
C8_ExistsNeverThrows ==
  [][ lastReturn'.op = "documentExists" =>
        /\ lastReturn'.ok
        /\ lastReturn'.value = (lastReturn'.lookup = "ok")
        /\ store' = store
    ]_vars

\* documentExists has just answered false for a stored document: its lookup failed
C8_Witness ==
  /\ R.op = "documentExists" /\ R.ok /\ ~R.value
  /\ R.lookup \in Failures /\ R.docId \in StoredKeys

\* C9: lifecycle. What is stored under a docId is the content and type of the
\* createDocument call that generated it; a step writes only a key that is not
\* stored yet, never changes a stored object, and removes only the key of the
\* deleteDocument call it belongs to.
C9_Lifecycle ==
  [][ /\ \A k \in DOMAIN store' :
           store'[k] = [data |-> created'[k].content, ctype |-> created'[k].type]
      /\ \A k \in (DOMAIN store) \cap (DOMAIN store') : store'[k] = store[k]
      /\ \A p \in Procs :
           (pc[p] \in CreatePcs /\ pc'[p] = "idle") => loc[p].docId \notin DOMAIN store
      /\ \A k \in (DOMAIN store') \ (DOMAIN store) :
           \E p \in Procs : pc[p] \in CreatePcs /\ pc'[p] = "idle" /\ loc[p].docId = k
      /\ \A k \in (DOMAIN store) \ (DOMAIN store') :
           lastReturn'.op = "deleteDocument" /\ lastReturn'.docId = k
    ]_vars

\* deleteDocument has just removed one document while another one stays stored
C9_Witness ==
  /\ R.op = "deleteDocument" /\ R.ok /\ ~R.absent
  /\ R.docId \notin StoredKeys
  /\ \E k \in StoredKeys : k # R.docId /\ store[k].data = created[k].content

\* C10: a readDocument that returns, the store having answered its transfer
\* from its contents, returns the bytes and the type stored under the docId,
\* also when a deleteDocument of the docId runs concurrently.
C10_ReadUnderConcurrentDelete ==
  (R.op = "readDocument" /\ R.ok /\ ~R.fault /\ R.docId \in returnedOk)
  => /\ R.data = created[R.docId].content
     /\ ValidFile(created[R.docId]) => R.contentType = created[R.docId].type
====
